---- MODULE Spec2Model ----
(***************************************************************************)
(* Model of upgrade.go: the badger 0.8 -> 1.0 datastore upgrade.           *)
(*                                                                         *)
(* The main goroutine runs Upgrade -> checkRepoVersion -> loadSpecs ->     *)
(* upgradeDs (try10, try08, migrateData) for every resolved path.  try08   *)
(* starts one producer goroutine per migrated path; it feeds the           *)
(* unbuffered channel `out` that migrateData ranges over.                  *)
(***************************************************************************)
EXTENDS Integers, Sequences, FiniteSets, TLC

VARIABLES
    versionFile,  \* the file <root>/version: [readable, data (sequence of characters)]
    specFile,     \* the file <root>/datastore_spec: [readable, valid, spec]
    disk,         \* directories under the repository root: name -> [kind, data]
    orig,         \* history: the value of disk when Upgrade was called
    pc,           \* position of the goroutine running Upgrade
    paths,        \* Upgrade's local `paths`
    i,            \* index of the path the range loop of Upgrade is at
    err,          \* the error Upgrade returns (Nil: success), set when pc = "done"
    temp,         \* migrateData's local `temp` ("" outside migrateData)
    backup,       \* migrateData's local `backup`
    txn,          \* pending writes of the destination transaction
    txnState,     \* "none" | "active" | "committed" | "discarded"
    dbOpen,       \* the destination store handle (db) is open
    entry,        \* the keyValue the range loop of migrateData holds
    nDone,        \* migrateData's local `n`: the entries Set so far
    before,       \* history: the value of disk when upgradeDs was called for path i
    prod,         \* the producer goroutines started so far (sequence of records)
    cancelled,    \* c.ctx is done (c.cancel was called)
    hist          \* history: the operations the Upgrade goroutine performed

vars == <<versionFile, specFile, disk, orig, pc, paths, i, err, temp, backup,
          txn, txnState, dbOpen, entry, nDone, before, prod, cancelled, hist>>

-----------------------------------------------------------------------------
(* Bounds of the model *)

\* longest content of the version file, in characters
MaxVersionLen == 3
\* largest number of nodes of a spec tree
MaxNodes == 4
\* largest number of key/value pairs of an old store
MaxItems == 2
\* number of names ioutil.TempDir can hand out per prefix
MaxDirs == 2

(* Program constants *)
SuppertedRepoVersion == 6

Nil == "nil"
ErrInvalidVersion == "unsupported badger version"
ErrCancelled == "context cancelled"

Keys == {"k1", "k2", "k3"}
Vals == {"v1", "v2"}
PathNames == {"a", "b"}

-----------------------------------------------------------------------------
(* checkRepoVersion: strings.TrimSpace and strconv.Atoi on the file's text *)

VersionChars == {" ", "-", "x", "0", "6", "7"}

IsSpace(c) == c = " "
IsDigit(c) == c \in {"0", "6", "7"}
DigitVal(c) == CASE c = "0" -> 0 [] c = "6" -> 6 [] c = "7" -> 7

RECURSIVE TrimLeft(_)
TrimLeft(s) ==
    IF s # <<>> /\ IsSpace(Head(s)) THEN TrimLeft(Tail(s)) ELSE s

RECURSIVE TrimRight(_)
TrimRight(s) ==
    IF s # <<>> /\ IsSpace(s[Len(s)]) THEN TrimRight(SubSeq(s, 1, Len(s) - 1)) ELSE s

TrimSpace(s) == TrimRight(TrimLeft(s))

RECURSIVE DigitsValue(_, _)
DigitsValue(s, acc) ==
    IF s = <<>> THEN acc ELSE DigitsValue(Tail(s), 10 * acc + DigitVal(Head(s)))

\* strconv.Atoi: an optional sign, then one or more decimal digits
Atoi(s) ==
    LET signed == s # <<>> /\ Head(s) \in {"-", "+"}
        digits == IF signed THEN Tail(s) ELSE s
    IN  IF digits = <<>> \/ \E n \in 1..Len(digits) : ~IsDigit(digits[n])
        THEN [n |-> 0, err |-> "*strconv.NumError"]
        ELSE [n |-> IF signed /\ Head(s) = "-"
                    THEN 0 - DigitsValue(digits, 0) ELSE DigitsValue(digits, 0),
              err |-> Nil]

checkRepoVersion_AcceptsNewer(f) ==
    IF ~f.readable THEN "*os.PathError"
    ELSE LET r == Atoi(TrimSpace(f.data))
         IN  IF r.err # Nil THEN r.err
             ELSE IF r.n < SuppertedRepoVersion THEN "unsupported fsrepo version"
             ELSE Nil

checkRepoVersion(f) ==
    IF ~f.readable THEN "*os.PathError"
    ELSE LET r == Atoi(TrimSpace(f.data))
         IN  IF r.err # Nil THEN r.err
             ELSE IF r.n # SuppertedRepoVersion THEN "unsupported fsrepo version"
             ELSE Nil

-----------------------------------------------------------------------------
(* The spec document after json.Unmarshal: a value of interface{} is a     *)
(* record [t |-> dynamic type, v |-> value]; a map[string]interface{} is   *)
(* a record whose fields are the keys present.                             *)

JStr(s) == [t |-> "string", v |-> s]
JNum(n) == [t |-> "float64", v |-> n]
JArr(a) == [t |-> "array", v |-> a]
JObj(m) == [t |-> "object", v |-> m]

\* x, ok := m[k].(T)
Has(m, k, type) == k \in DOMAIN m /\ m[k].t = type

Result(out, e) == [out |-> out, err |-> e]

RECURSIVE parseSpecs(_), parseMounts(_, _, _)

\* the loop `for _, m := range mounts` of parseSpecs, from index n with `out`
parseMounts_Prepend(mounts, n, out) ==
    IF n > Len(mounts) THEN Result(out, Nil)
    ELSE IF mounts[n].t # "object" THEN Result(<<>>, "unexpected mount type")
    ELSE LET r == parseSpecs(mounts[n].v)
         IN  IF r.err # Nil THEN Result(<<>>, r.err)
             ELSE parseMounts(mounts, n + 1, r.out \o out)

parseMounts_SkipsBad(mounts, n, out) ==
    IF n > Len(mounts) THEN Result(out, Nil)
    ELSE IF mounts[n].t # "object" THEN Result(<<>>, "unexpected mount type")
    ELSE LET r == parseSpecs(mounts[n].v)
         IN  IF r.err # Nil THEN Result(out, Nil)
             ELSE parseMounts(mounts, n + 1, out \o r.out)

parseMounts(mounts, n, out) ==
    IF n > Len(mounts) THEN Result(out, Nil)
    ELSE IF mounts[n].t # "object" THEN Result(<<>>, "unexpected mount type")
    ELSE LET r == parseSpecs(mounts[n].v)
         IN  IF r.err # Nil THEN Result(<<>>, r.err)
             ELSE parseMounts(mounts, n + 1, out \o r.out)

parseSpecs(spec) ==
    IF ~Has(spec, "type", "string") THEN Result(<<>>, "unexpected spec type")
    ELSE LET t == spec.type.v IN
    CASE t = "mount" ->
            IF ~Has(spec, "mounts", "array") THEN Result(<<>>, "unexpected mounts type")
            ELSE parseMounts(spec.mounts.v, 1, <<>>)
      [] t = "measure" ->
            IF ~Has(spec, "child", "object") THEN Result(<<>>, "unexpected child type")
            ELSE parseSpecs(spec.child.v)
      [] t = "badgerds" ->
            IF ~Has(spec, "path", "string") THEN Result(<<>>, "unexpected path type")
            ELSE Result(<<spec.path.v>>, Nil)
      [] t \in {"flatfs", "levelds"} -> Result(<<>>, Nil)
      [] OTHER -> Result(<<>>, "unexpected ds type")

loadSpecs(f) ==
    IF ~f.readable THEN Result(<<>>, "*os.PathError")
    ELSE IF ~f.valid THEN Result(<<>>, "*json.SyntaxError")
    ELSE parseSpecs(f.spec)

-----------------------------------------------------------------------------
(* Directories under the repository root *)

EmptyData == [k \in {} |-> "v1"]
Dir(kind, data) == [kind |-> kind, data |-> data]
Absent == Dir("absent", EmptyData)
EmptyDir == Dir("empty", EmptyData)

\* ioutil.TempDir(c.path, "badger-") and ioutil.TempDir(c.path, "badger-backup-")
TempName(n) == "badger-" \o ToString(n)
BackupName(n) == "badger-backup-" \o ToString(n)
TempNames == {TempName(n) : n \in 1..MaxDirs}
BackupNames == {BackupName(n) : n \in 1..MaxDirs}
DirNames == PathNames \cup TempNames \cup BackupNames

\* the name ioutil.TempDir creates: one that does not exist yet
FreshTemp(d) == TempName(CHOOSE n \in 1..MaxDirs :
                    /\ d[TempName(n)].kind = "absent"
                    /\ \A m \in 1..(n - 1) : d[TempName(m)].kind # "absent")
FreshBackup(d) == BackupName(CHOOSE n \in 1..MaxDirs :
                    /\ d[BackupName(n)].kind = "absent"
                    /\ \A m \in 1..(n - 1) : d[BackupName(m)].kind # "absent")
HasFreshTemp(d) == \E n \in 1..MaxDirs : d[TempName(n)].kind = "absent"
HasFreshBackup(d) == \E n \in 1..MaxDirs : d[BackupName(n)].kind = "absent"

\* os.Rename of a directory can succeed: the source exists, the target is
\* absent or an empty directory
CanRename(d, from, to) ==
    d[from].kind # "absent" /\ d[to].kind \in {"absent", "empty"}

Rename(d, from, to) == [d EXCEPT ![to] = d[from], ![from] = Absent]

\* ioutil.TempDir(c.path, "badger-backup-") followed by os.Remove(backup): the
\* name is chosen and the directory is gone again
Reserve_Kept(d, name) == [d EXCEPT ![name] = EmptyDir]

Reserve(d, name) == [d EXCEPT ![name] = Absent]

\* os.Rename(path, backup) of migrateData
MoveAside_Remove(d, path, bak) == [d EXCEPT ![path] = Absent]

MoveAside_Copy(d, path, bak) == [d EXCEPT ![bak] = d[path]]

MoveAside(d, path, bak) == Rename(d, path, bak)

\* os.Rename(temp, path) of migrateData
SwapIn_Skipped(d, tmp, path) == d

SwapIn(d, tmp, path) == Rename(d, tmp, path)

-----------------------------------------------------------------------------
(* The two badger adapters, as far as upgrade.go depends on them *)

UnsupportedPrefix == "manifest has unsupported version:"
\* an error message as <<what strings.HasPrefix looks at, the rest>>
VersionMsg == <<UnsupportedPrefix, " 2 (we support 4)">>
OtherMsg == <<"Cannot acquire directory lock", "">>

HasPrefix(msg, prefix) == msg[1] = prefix

\* the results badger10.Open can give on a directory ("ok" or an error message)
Open10Results(dir) ==
    CASE dir.kind \in {"badger10", "empty"} -> {<<"ok", "">>, OtherMsg}
      [] dir.kind \in {"badger08", "unknown"} -> {VersionMsg, OtherMsg}
      [] OTHER -> {OtherMsg}

\* the results badger08.NewKV can give on a directory
NewKV08Results(dir) ==
    CASE dir.kind = "badger08" -> {<<"ok", "">>, OtherMsg}
      [] dir.kind \in {"badger10", "unknown"} -> {VersionMsg, OtherMsg}
      [] OTHER -> {OtherMsg}

\* try10 / try08: the error returned for a failed open
OpenError_AlwaysVersion(msg) == ErrInvalidVersion

OpenError(msg) == IF HasPrefix(msg, UnsupportedPrefix) THEN ErrInvalidVersion
                  ELSE "badger: " \o msg[1]

\* upgradeDs: `if err == nil || err != ErrInvalidVersion { return err }`
ReturnsNow_OnlyNil(e) == e = Nil

ReturnsNow(e) == e = Nil \/ e # ErrInvalidVersion

\* Upgrade: `if err != nil { return err }` in the loop over paths
LoopStops_Never(e) == e # e

LoopStops(e) == e # Nil

-----------------------------------------------------------------------------
(* Sequences without repetition of the elements of S: iteration orders *)

RECURSIVE Perms(_)
Perms(S) ==
    IF S = {} THEN {<<>>}
    ELSE UNION {{<<x>> \o p : p \in Perms(S \ {x})} : x \in S}

Put(f, k, v) == [x \in DOMAIN f \cup {k} |-> IF x = k THEN v ELSE f[x]]

-----------------------------------------------------------------------------
(* Inputs: version files, spec documents, stores *)

VersionFile(readable, data) == [readable |-> readable, data |-> data]
VersionFiles ==
    {VersionFile(FALSE, <<>>)} \cup
    {VersionFile(TRUE, s) : s \in UNION {[1..n -> VersionChars] : n \in 0..MaxVersionLen}}
GoodVersion == VersionFile(TRUE, <<"6">>)

Badgerds(path) == [type |-> JStr("badgerds"), path |-> JStr(path)]
Other(type) == [type |-> JStr(type), path |-> JStr("b")]
Measure(child) == [type |-> JStr("measure"), child |-> JObj(child)]
Mount(mounts) == [type |-> JStr("mount"), mounts |-> JArr(mounts)]

ValidLeaves == {Badgerds(p) : p \in PathNames} \cup {Other("flatfs"), Other("levelds")}
\* nodes parseSpecs rejects
BadLeaves ==
    { Other("bogus"), [path |-> JStr("a")], [type |-> JNum(1), path |-> JStr("a")],
      [type |-> JStr("badgerds")], [type |-> JStr("badgerds"), path |-> JNum(1)],
      [type |-> JStr("mount")], [type |-> JStr("mount"), mounts |-> JObj(Badgerds("a"))],
      [type |-> JStr("measure")], [type |-> JStr("measure"), child |-> JArr(<<>>)] }

RECURSIVE TreesOfSize(_, _), ForestsOfSize(_, _)
\* the spec trees of exactly n nodes over the given leaves
TreesOfSize(n, leaves) ==
    IF n = 1 THEN leaves \cup {Mount(<<>>)}
    ELSE {Measure(c) : c \in TreesOfSize(n - 1, leaves)} \cup
         {Mount(f) : f \in ForestsOfSize(n - 1, leaves)}
\* the arrays of JSON objects whose trees have n nodes together
ForestsOfSize(n, leaves) ==
    IF n = 0 THEN {<<>>}
    ELSE UNION {{<<JObj(t)>> \o f : t \in TreesOfSize(k, leaves),
                                    f \in ForestsOfSize(n - k, leaves)} : k \in 1..n}

ValidTrees == UNION {TreesOfSize(n, ValidLeaves) : n \in 1..MaxNodes}
AllTrees == ValidTrees \cup
            UNION {TreesOfSize(n, ValidLeaves \cup BadLeaves) : n \in 1..(MaxNodes - 1)}
             \cup {Mount(<<JStr("a")>>), Mount(<<JObj(Badgerds("a")), JStr("a")>>)}

SpecFile(readable, valid, spec) == [readable |-> readable, valid |-> valid, spec |-> spec]
ScenarioSpec == Mount(<<JObj(Badgerds("a")), JObj(Other("flatfs"))>>)
SpecFiles ==
    {SpecFile(FALSE, FALSE, ScenarioSpec), SpecFile(TRUE, FALSE, ScenarioSpec)} \cup
    {SpecFile(TRUE, TRUE, t) : t \in AllTrees}
OnePathSpecs == {SpecFile(TRUE, TRUE, t) : t \in {ScenarioSpec, Measure(Badgerds("a"))}}
TwoPathSpecs ==
    {SpecFile(TRUE, TRUE, t) :
        t \in { Mount(<<JObj(Badgerds("a")), JObj(Measure(Badgerds("b")))>>),
                Mount(<<JObj(Badgerds("b")), JObj(Badgerds("a"))>>),
                Mount(<<JObj(Badgerds("a")), JObj(Badgerds("a"))>>) }}

\* the contents a store can have: at most MaxItems keys
Stores == UNION {[S -> Vals] : S \in {T \in SUBSET Keys : Cardinality(T) <= MaxItems}}
Store1 == [k \in {"k1"} |-> "v1"]
Store2 == [k \in {"k1", "k2"} |-> IF k = "k1" THEN "v1" ELSE "v2"]
Store3 == [k \in {"k1"} |-> "v2"]

DiskOf(a, b) == [n \in DirNames |-> IF n = "a" THEN a ELSE IF n = "b" THEN b ELSE Absent]

\* the disk a successful run on path a leaves
AfterRun(b) ==
    [DiskOf(Dir("badger10", Store2), b) EXCEPT ![BackupName(1)] = Dir("badger08", Store2)]

AnyDirs == {Dir("badger08", s) : s \in Stores} \cup {Dir("badger10", Store2), Dir("unknown", EmptyData)}
FewDirsA == {Dir("badger08", Store2), Dir("badger08", Store1), Dir("badger10", Store2), Dir("unknown", EmptyData)}
FewDirsB == {Dir("badger08", Store3), Dir("badger10", Store1), Dir("unknown", EmptyData)}

NoEntry == [key |-> 0, value |-> 0]

Init ==
    /\ \/ /\ versionFile \in VersionFiles
          /\ specFile = SpecFile(TRUE, TRUE, ScenarioSpec)
          /\ disk = DiskOf(Dir("badger08", Store1), Dir("badger10", Store1))
       \/ /\ versionFile = GoodVersion
          /\ specFile \in SpecFiles
          /\ disk = DiskOf(Dir("badger10", Store2), Dir("badger10", Store1))
       \/ /\ versionFile = GoodVersion
          /\ specFile \in OnePathSpecs
          /\ disk \in {DiskOf(a, Dir("badger08", Store3)) : a \in AnyDirs}
       \/ /\ versionFile = GoodVersion
          /\ specFile \in TwoPathSpecs
          /\ disk \in {DiskOf(a, b) : a \in FewDirsA, b \in FewDirsB}
       \/ /\ versionFile = GoodVersion
          /\ specFile \in OnePathSpecs \cup TwoPathSpecs
          /\ disk \in {AfterRun(b) : b \in FewDirsB}
    /\ orig = disk
    /\ pc = "checkRepoVersion"
    /\ paths = <<>>
    /\ i = 0
    /\ err = Nil
    /\ temp = ""
    /\ backup = ""
    /\ txn = EmptyData
    /\ txnState = "none"
    /\ dbOpen = FALSE
    /\ entry = NoEntry
    /\ nDone = 0
    /\ before = disk
    /\ prod = <<>>
    /\ cancelled = FALSE
    /\ hist = <<>>

-----------------------------------------------------------------------------
(* The goroutine running Upgrade *)

inputs == <<versionFile, specFile, orig>>
locals == <<temp, backup, txn, txnState, dbOpen, entry, nDone>>

Ev(op, res) ==
    [op |-> op, idx |-> i, path |-> IF i \in 1..Len(paths) THEN paths[i] ELSE "", res |-> res]
Did(op, res) == hist' = Append(hist, Ev(op, res))

\* upgradeDs returns e to the loop of Upgrade
UpgradeDsReturns(e) ==
    IF LoopStops(e)
    THEN pc' = "done" /\ err' = e /\ UNCHANGED i
    ELSE pc' = "range" /\ i' = i + 1 /\ UNCHANGED err

\* Upgrade: err := p.checkRepoVersion()
Upgrade_checkRepoVersion ==
    /\ pc = "checkRepoVersion"
    /\ LET e == checkRepoVersion(versionFile)
       IN  /\ Did("checkRepoVersion", e)
           /\ IF e # Nil THEN pc' = "done" /\ err' = e
                         ELSE pc' = "loadSpecs" /\ UNCHANGED err
    /\ UNCHANGED <<inputs, locals, before, disk, paths, i, prod, cancelled>>

\* Upgrade: paths, err := p.loadSpecs()
Upgrade_loadSpecs ==
    /\ pc = "loadSpecs"
    /\ LET r == loadSpecs(specFile)
       IN  /\ Did("loadSpecs", r.err)
           /\ IF r.err # Nil
              THEN pc' = "done" /\ err' = r.err /\ UNCHANGED <<paths, i>>
              ELSE pc' = "range" /\ paths' = r.out /\ i' = 1 /\ UNCHANGED err
    /\ UNCHANGED <<inputs, locals, before, disk, prod, cancelled>>

\* Upgrade: the head of `for _, dir := range paths`, and `return nil` after it
Upgrade_range ==
    /\ pc = "range"
    /\ IF i > Len(paths)
       THEN pc' = "done" /\ err' = Nil /\ Did("return", Nil) /\ UNCHANGED before
       ELSE pc' = "try10" /\ before' = disk /\ UNCHANGED <<err, hist>>
    /\ UNCHANGED <<inputs, locals, disk, paths, i, prod, cancelled>>

\* upgradeDs: c.try10(path) and the test of its result
try10 ==
    /\ pc = "try10"
    /\ \E res \in Open10Results(disk[paths[i]]) :
        LET e == IF res[1] = "ok" THEN Nil ELSE OpenError(res)
        IN  /\ Did("try10", e)
            /\ IF ReturnsNow(e) THEN UpgradeDsReturns(e)
                                ELSE pc' = "try08" /\ UNCHANGED <<i, err>>
    /\ UNCHANGED <<inputs, locals, before, disk, paths, prod, cancelled>>

NewProducer(path, data) ==
    [pc |-> "rewind", path |-> path, data |-> data, order |-> <<>>, pos |-> 0,
     kbuf |-> <<>>, vbuf |-> <<>>, kaddr |-> 0, vaddr |-> 0, closed |-> FALSE,
     \* history: the iterator positions handed off, and how the goroutine returned
     sent |-> <<>>, exit |-> ""]

\* upgradeDs: c.try08(path) up to the call of migrateData, and the test of a
\* failed open
try08 ==
    /\ pc = "try08"
    /\ \E res \in NewKV08Results(disk[paths[i]]) :
        IF res[1] = "ok"
        THEN /\ Did("try08", Nil)
             /\ prod' = Append(prod, NewProducer(paths[i], disk[paths[i]].data))
             /\ pc' = "tempdir"
             /\ UNCHANGED <<i, err>>
        ELSE LET e == OpenError(res)
             IN  /\ Did("try08", e)
                 /\ UpgradeDsReturns(IF ReturnsNow(e) THEN e ELSE ErrInvalidVersion)
                 /\ UNCHANGED prod
    /\ UNCHANGED <<inputs, locals, before, disk, paths, cancelled>>

\* migrateData returns e; try08 and upgradeDs pass it on
MigrateReturns(e) ==
    UpgradeDsReturns(IF ReturnsNow(e) THEN e ELSE ErrInvalidVersion)

\* the producer of the path being migrated: the last one started
Cur == Len(prod)

\* migrateData: temp, err := ioutil.TempDir(c.path, "badger-")
migrateData_TempDir ==
    /\ pc = "tempdir"
    /\ \E ok \in BOOLEAN :
        IF ok
        THEN /\ HasFreshTemp(disk)
             /\ temp' = FreshTemp(disk)
             /\ disk' = [disk EXCEPT ![FreshTemp(disk)] = EmptyDir]
             /\ Did("TempDir", Nil)
             /\ pc' = "open"
             /\ UNCHANGED <<i, err, cancelled>>
        ELSE /\ cancelled' = TRUE
             /\ Did("TempDir", "*os.PathError")
             /\ MigrateReturns("*os.PathError")
             /\ UNCHANGED <<temp, disk>>
    /\ UNCHANGED <<inputs, before, backup, txn, txnState, dbOpen, entry, nDone, paths, prod>>

\* migrateData: db, err := badger10.Open(opt); txn := db.NewTransaction(true)
migrateData_Open ==
    /\ pc = "open"
    /\ \E res \in Open10Results(disk[temp]) :
        IF res[1] = "ok"
        THEN /\ disk' = [disk EXCEPT ![temp] = Dir("badger10", EmptyData)]
             /\ dbOpen' = TRUE
             /\ txnState' = "active"
             /\ txn' = EmptyData
             /\ Did("Open", Nil)
             /\ pc' = "recv"
             /\ UNCHANGED <<i, err, cancelled>>
        ELSE /\ cancelled' = TRUE
             /\ Did("Open", "badger: " \o res[1])
             /\ MigrateReturns("badger: " \o res[1])
             /\ UNCHANGED <<disk, dbOpen, txnState, txn>>
    /\ UNCHANGED <<inputs, before, temp, backup, entry, nDone, paths, prod>>

\* the unbuffered channel: `out <- keyValue{key: item.Key(), value: data}` of
\* the producer meets `for entry := range data` of migrateData.  The keyValue
\* holds the two slices, that is, references into the old store's buffers.
Handoff ==
    /\ pc = "recv"
    /\ prod[Cur].pc = "select"
    /\ entry' = [key |-> prod[Cur].kaddr, value |-> prod[Cur].vaddr]
    /\ prod' = [prod EXCEPT ![Cur].pc = "next",
                             ![Cur].sent = Append(prod[Cur].sent, prod[Cur].pos)]
    /\ pc' = "set"
    /\ UNCHANGED <<inputs, before, disk, paths, i, err, temp, backup, txn, txnState,
                   dbOpen, nDone, cancelled, hist>>

\* migrateData: err := txn.Set(entry.key, entry.value); the bytes are those
\* the two slices hold when Set runs
migrateData_Set ==
    /\ pc = "set"
    /\ \E ok \in BOOLEAN :
        IF ok
        THEN /\ txn' = Put(txn, prod[Cur].kbuf[entry.key], prod[Cur].vbuf[entry.value])
             /\ nDone' = nDone + 1
             /\ pc' = "recv"
             /\ UNCHANGED <<i, err, cancelled, txnState, dbOpen, hist>>
        ELSE /\ cancelled' = TRUE
             /\ txnState' = "discarded"
             /\ dbOpen' = FALSE
             /\ Did("Set", "badger: txn")
             /\ MigrateReturns("badger: txn")
             /\ UNCHANGED <<txn, nDone>>
    /\ UNCHANGED <<inputs, before, disk, temp, backup, entry, paths, prod>>

\* migrateData: the range loop ends on the closed channel; txn.Commit(nil),
\* then the deferred txn.Discard() and db.Close()
migrateData_Commit ==
    /\ pc = "recv"
    /\ prod[Cur].closed
    /\ \E ok \in BOOLEAN :
        IF ok
        THEN /\ disk' = [disk EXCEPT ![temp] = Dir("badger10", txn)]
             /\ txnState' = "committed"
             /\ Did("Commit", Nil)
             /\ pc' = "backup"
             /\ UNCHANGED <<i, err>>
        ELSE /\ txnState' = "discarded"
             /\ Did("Commit", "badger: commit")
             /\ MigrateReturns("badger: commit")
             /\ UNCHANGED disk
    /\ dbOpen' = FALSE
    /\ UNCHANGED <<inputs, before, temp, backup, txn, entry, nDone, paths, prod, cancelled>>

\* migrateData: backup, err := ioutil.TempDir(c.path, "badger-backup-");
\* os.Remove(backup)
migrateData_Backup ==
    /\ pc = "backup"
    /\ \E res \in {"ok", "TempDir", "Remove"} :
        CASE res = "ok" ->
                /\ HasFreshBackup(disk)
                /\ backup' = FreshBackup(disk)
                /\ disk' = Reserve(disk, FreshBackup(disk))
                /\ Did("Backup", Nil)
                /\ pc' = "rename1"
                /\ UNCHANGED <<i, err>>
          [] res = "TempDir" ->
                /\ Did("Backup", "*os.PathError")
                /\ MigrateReturns("*os.PathError")
                /\ UNCHANGED <<backup, disk>>
          [] res = "Remove" ->
                /\ HasFreshBackup(disk)
                /\ backup' = FreshBackup(disk)
                /\ disk' = [disk EXCEPT ![FreshBackup(disk)] = EmptyDir]
                /\ Did("Remove", "*os.PathError")
                /\ MigrateReturns("*os.PathError")
    /\ UNCHANGED <<inputs, before, temp, txn, txnState, dbOpen, entry, nDone, paths, prod,
                   cancelled>>

\* the errors os.Rename returns in migrateData, by their Go type: migrateData
\* returns them as they are
Rename1Error == "*os.LinkError"
Rename2Error == "*os.LinkError"

\* migrateData: os.Rename(path, backup)
migrateData_Rename1 ==
    /\ pc = "rename1"
    /\ \E ok \in BOOLEAN :
        IF ok
        THEN /\ CanRename(disk, paths[i], backup)
             /\ disk' = MoveAside(disk, paths[i], backup)
             /\ Did("Rename1", Nil)
             /\ pc' = "rename2"
             /\ UNCHANGED <<i, err>>
        ELSE /\ Did("Rename1", Rename1Error)
             /\ MigrateReturns(Rename1Error)
             /\ UNCHANGED disk
    /\ UNCHANGED <<inputs, locals, before, paths, prod, cancelled>>

\* migrateData: os.Rename(temp, path) and `return nil`
migrateData_Rename2 ==
    /\ pc = "rename2"
    /\ \E ok \in BOOLEAN :
        IF ok
        THEN /\ CanRename(disk, temp, paths[i])
             /\ disk' = SwapIn(disk, temp, paths[i])
             /\ Did("Rename2", Nil)
             /\ MigrateReturns(Nil)
             /\ temp' = "" /\ backup' = "" /\ txn' = EmptyData /\ txnState' = "none"
             /\ entry' = NoEntry /\ nDone' = 0
             /\ UNCHANGED dbOpen
        ELSE /\ Did("Rename2", Rename2Error)
             /\ MigrateReturns(Rename2Error)
             /\ UNCHANGED <<disk, locals>>
    /\ UNCHANGED <<inputs, before, paths, prod, cancelled>>

-----------------------------------------------------------------------------
(* The producer goroutine of try08 *)

\* the iterator moves to position pos: the item's key and value are placed in
\* buffers, either the ones the previous item used (reuseK, reuseV) or new ones
Load(p, pos, reuseK, reuseV) ==
    IF pos > Len(p.order) THEN [p EXCEPT !.pos = pos, !.pc = "valid"]
    ELSE LET k == p.order[pos]
             v == p.data[k]
             ka == IF reuseK /\ p.kaddr > 0 THEN p.kaddr ELSE Len(p.kbuf) + 1
             va == IF reuseV /\ p.vaddr > 0 THEN p.vaddr ELSE Len(p.vbuf) + 1
         IN  [p EXCEPT !.pos = pos, !.pc = "valid", !.kaddr = ka, !.vaddr = va,
                       !.kbuf = [a \in 1..(IF ka > Len(p.kbuf) THEN ka ELSE Len(p.kbuf)) |->
                                    IF a = ka THEN k ELSE p.kbuf[a]],
                       !.vbuf = [a \in 1..(IF va > Len(p.vbuf) THEN va ELSE Len(p.vbuf)) |->
                                    IF a = va THEN v ELSE p.vbuf[a]]]

mainVars == <<inputs, locals, before, disk, paths, i, err, pc, cancelled, hist>>

\* it := kv.NewIterator(...); it.Rewind(), in some iteration order
producer_Rewind(j) ==
    /\ prod[j].pc = "rewind"
    /\ \E order \in Perms(DOMAIN prod[j].data) :
        prod' = [prod EXCEPT ![j] = Load([prod[j] EXCEPT !.order = order], 1, FALSE, FALSE)]
    /\ UNCHANGED mainVars

\* a send that does not wait for the consumer: the record may be dropped
producer_Value_Drop(j) ==
    /\ prod[j].pc = "valid"
    /\ prod[j].pos <= Len(prod[j].order)
    /\ \E dropped \in BOOLEAN :
        prod' = [prod EXCEPT ![j].pc = IF dropped THEN "next" ELSE "select"]
    /\ UNCHANGED mainVars

\* it.Valid() holds and item.Value calls the callback
producer_Value(j) ==
    /\ prod[j].pc = "valid"
    /\ prod[j].pos <= Len(prod[j].order)
    /\ prod' = [prod EXCEPT ![j].pc = "select"]
    /\ UNCHANGED mainVars

\* the goroutine after item.Value returned an error other than ErrCancelled
AfterReadError_Close(p) == [p EXCEPT !.pc = "itClose", !.exit = "error", !.closed = TRUE]

AfterReadError(p) == [p EXCEPT !.pc = "itClose", !.exit = "error"]

\* it.Valid() holds and item.Value fails to read the value: Log.Printf, return
producer_ReadError(j) ==
    /\ prod[j].pc = "valid"
    /\ prod[j].pos <= Len(prod[j].order)
    /\ prod' = [prod EXCEPT ![j] = AfterReadError(prod[j])]
    /\ UNCHANGED mainVars

\* a plain `out <- keyValue{...}` in place of the select: no such step
producer_Cancelled_PlainSend(j) == FALSE /\ UNCHANGED vars

\* the callback's select takes `case <-c.ctx.Done()`: return ErrCancelled
producer_Cancelled(j) ==
    /\ prod[j].pc = "select"
    /\ cancelled
    /\ prod' = [prod EXCEPT ![j].pc = "itClose", ![j].exit = "cancelled"]
    /\ UNCHANGED mainVars

\* the callback returned nil: it.Next()
producer_Next(j) ==
    /\ prod[j].pc = "next"
    /\ \E reuseK, reuseV \in BOOLEAN :
        prod' = [prod EXCEPT ![j] = Load(prod[j], prod[j].pos + 1, reuseK, reuseV)]
    /\ UNCHANGED mainVars

\* it.Valid() is false: close(out)
producer_CloseOut(j) ==
    /\ prod[j].pc = "valid"
    /\ prod[j].pos > Len(prod[j].order)
    /\ prod' = [prod EXCEPT ![j].pc = "itClose", ![j].exit = "closed", ![j].closed = TRUE]
    /\ UNCHANGED mainVars

\* deferred it.Close()
producer_ItClose(j) ==
    /\ prod[j].pc = "itClose"
    /\ prod' = [prod EXCEPT ![j].pc = "kvClose"]
    /\ UNCHANGED mainVars

\* deferred kv.Close()
producer_KvClose(j) ==
    /\ prod[j].pc = "kvClose"
    /\ prod' = [prod EXCEPT ![j].pc = "exit"]
    /\ UNCHANGED mainVars

-----------------------------------------------------------------------------

Next ==
    \/ Upgrade_checkRepoVersion
    \/ Upgrade_loadSpecs
    \/ Upgrade_range
    \/ try10
    \/ try08
    \/ migrateData_TempDir
    \/ migrateData_Open
    \/ Handoff
    \/ migrateData_Set
    \/ migrateData_Commit
    \/ migrateData_Backup
    \/ migrateData_Rename1
    \/ migrateData_Rename2
    \/ \E j \in 1..Len(prod) : producer_Rewind(j)
    \/ \E j \in 1..Len(prod) : producer_Value(j)
    \/ \E j \in 1..Len(prod) : producer_ReadError(j)
    \/ \E j \in 1..Len(prod) : producer_Cancelled(j)
    \/ \E j \in 1..Len(prod) : producer_Next(j)
    \/ \E j \in 1..Len(prod) : producer_CloseOut(j)
    \/ \E j \in 1..Len(prod) : producer_ItClose(j)
    \/ \E j \in 1..Len(prod) : producer_KvClose(j)

Spec == Init /\ [][Next]_vars

\* the Go scheduler runs a goroutine that can run
FairSpec == Spec /\ WF_vars(Next)

-----------------------------------------------------------------------------
(* Vocabulary of the properties *)

Done == pc = "done"
Success == Done /\ err = Nil
Failure == Done /\ err # Nil

\* the positions of hist where the operation op was performed
Events(op) == {m \in 1..Len(hist) : hist[m].op = op}
\* op was performed with result res while path number idx was processed
Happened(op, idx, res) ==
    \E m \in Events(op) : hist[m].idx = idx /\ hist[m].res = res
LastEvent == hist[Len(hist)]
FailedAt(op) == Failure /\ LastEvent.op = op /\ LastEvent.res # Nil

\* the producer of the current migration returned without close(out)
StoppedEarly ==
    /\ Len(prod) > 0
    /\ prod[Cur].pc \in {"itClose", "kvClose", "exit"}
    /\ ~prod[Cur].closed

\* the original store of path p is on disk under a backup name
BackedUp(p) == \E b \in BackupNames : disk[b] = orig[p]

-----------------------------------------------------------------------------
\* C1: round trip.  When Upgrade returns success, every resolved path that
\* held a 0.8 store holds exactly the key/value pairs that store held.
C1_RoundTrip ==
    Success =>
        \A m \in 1..Len(paths) :
            orig[paths[m]].kind = "badger08" =>
                disk[paths[m]].data = orig[paths[m]].data

\* C2: no data loss.  In every state the original content of every store
\* directory is on disk, at its path or under a backup name.
C2_NoDataLoss ==
    \A p \in PathNames : disk[p] = orig[p] \/ BackedUp(p)

\* the second rename failed: the original is only at the backup name
C2_Witness ==
    /\ FailedAt("Rename2")
    /\ disk[paths[i]] = Absent
    /\ disk[backup] = orig[paths[i]]
    /\ nDone = 2

\* C3: the transaction is committed only after the producer handed off every
\* record and closed the channel; once the context is cancelled or the
\* producer stopped early, the transaction is not committed and the temporary
\* store is not renamed onto the path.
C3_CommitAtomicity ==
    /\ txnState = "committed" =>
        /\ prod[Cur].closed
        /\ prod[Cur].pos = Len(prod[Cur].order) + 1
        /\ nDone = Cardinality(DOMAIN prod[Cur].data)
        /\ ~cancelled
    /\ (cancelled \/ (StoppedEarly /\ pc \notin {"range", "try10", "try08"})) =>
        /\ txnState # "committed"
        /\ ~Happened("Commit", i, Nil)
        /\ ~Happened("Rename2", i, Nil)
        /\ disk[paths[i]] = before[paths[i]]
        /\ temp # "" => disk[temp].data = EmptyData

\* Set failed after one record was applied: cancelled, nothing committed
C3_Witness ==
    /\ FailedAt("Set")
    /\ cancelled
    /\ nDone = 1
    /\ disk[temp] = Dir("badger10", EmptyData)
    /\ prod[Cur].pc = "exit"

\* C4: Upgrade always returns: as long as it has not returned, some goroutine
\* can take a step.
C4_UpgradeReturns == Done \/ ENABLED Next

\* C5: when the second rename fails after the first succeeded, the original is
\* at the backup name and the error returned differs from the one returned
\* when the first rename fails.
C5_SwapAtomicity ==
    FailedAt("Rename2") =>
        /\ disk[backup] = orig[paths[i]]
        /\ err # Rename1Error

\* the version file is unreadable, unparsable or holds another version
VersionRejected ==
    \/ ~versionFile.readable
    \/ Atoi(TrimSpace(versionFile.data)).err # Nil
    \/ Atoi(TrimSpace(versionFile.data)).n # SuppertedRepoVersion

\* C6: when the version gate rejects, Upgrade fails before the spec document
\* is read or a store opened, and nothing on disk changes.
C6_VersionGate ==
    VersionRejected =>
        /\ pc \in {"checkRepoVersion", "done"}
        /\ Done => err # Nil
        /\ \A m \in 1..Len(hist) : hist[m].op = "checkRepoVersion"
        /\ paths = <<>>
        /\ prod = <<>>
        /\ disk = orig

\* a greater version was rejected
C6_Witness ==
    /\ Failure
    /\ versionFile.readable
    /\ Atoi(TrimSpace(versionFile.data)) = [n |-> 7, err |-> Nil]
    /\ err = "unsupported fsrepo version"

\* the store of path p was swapped in by a completed migration
Swapped(p) == \E m \in Events("Rename2") : hist[m].res = Nil /\ hist[m].path = p

C7_Order ==
    \* the paths are taken in resolver order, one after the other
    /\ \A m \in Events("try10") :
        /\ hist[m].idx = Cardinality({k \in Events("try10") : k <= m})
        /\ hist[m].idx \in 1..Len(paths)
        /\ hist[m].path = paths[hist[m].idx]
    /\ \A m, k \in 1..Len(hist) : m <= k => hist[m].idx <= hist[k].idx
    \* a path is started only after the one before it returned success
    /\ \A m \in Events("try10") :
        hist[m].idx > 1 =>
            /\ hist[m - 1].idx = hist[m].idx - 1
            /\ hist[m - 1].res = Nil
            /\ hist[m - 1].op \in {"try10", "Rename2"}
    \* the first failure is what Upgrade returns, and it is the last thing done
    /\ \A m \in 1..Len(hist) :
        (hist[m].res # Nil /\ ~(hist[m].op = "try10" /\ hist[m].res = ErrInvalidVersion)) =>
            m = Len(hist) /\ Done /\ err = hist[m].res
    /\ Failure => LastEvent.res = err

C7_Stable ==
    \* after Upgrade returned it does nothing more
    /\ Done => (hist' = hist /\ disk' = disk /\ pc' = pc /\ err' = err)
    \* a completed swap stays in place
    /\ \A p \in PathNames : Swapped(p) => disk'[p] = disk[p]

\* C7: the paths are processed one at a time in resolver order, each only
\* after the one before it succeeded; the first failure is returned, nothing
\* is done after it, and the swaps completed before it stay in place.
C7_Sequential == [](C7_Order) /\ [][C7_Stable]_vars

\* the second path failed after the first was migrated and swapped
C7_Witness ==
    /\ Failure
    /\ i = 2
    /\ paths[1] # paths[2]
    /\ Swapped(paths[1])
    /\ disk[paths[1]].kind = "badger10"
    /\ LastEvent.op = "Rename1"

\* C8 as claimed: on success every resolved path was copied into a temporary
\* store, swapped in, and has a backup of the original.
C8_AllMigrated ==
    Success =>
        \A m \in 1..Len(paths) :
            /\ Happened("Commit", m, Nil)
            /\ Happened("Rename2", m, Nil)
            /\ BackedUp(paths[m])

\* path number m was migrated: copied, committed and swapped in
Migrated(m) ==
    /\ Happened("try08", m, Nil)
    /\ Happened("TempDir", m, Nil)
    /\ Happened("Commit", m, Nil)
    /\ Happened("Rename1", m, Nil)
    /\ Happened("Rename2", m, Nil)
\* path number m opened under the 1.0 adapter and nothing else was done
LeftAsIs(m) ==
    \A k \in 1..Len(hist) : hist[k].idx = m => hist[k].op = "try10" /\ hist[k].res = Nil

\* C8 amended: on success every resolved path holds a 1.0 store; a path that
\* held a 0.8 store was migrated at its first occurrence, swapped in, and its
\* original is under a backup name; a path that already held a 1.0 store, and
\* a later occurrence of a migrated path, is left as it is: no temporary
\* store, no backup, no rename.
C8_MigratedOrCurrent ==
    Success =>
        \A m \in 1..Len(paths) :
            LET p == paths[m]
                first == \A k \in 1..(m - 1) : paths[k] # p
            IN  /\ disk[p].kind = "badger10"
                /\ IF orig[p].kind = "badger08"
                   THEN /\ BackedUp(p)
                        /\ IF first THEN Migrated(m) ELSE LeftAsIs(m)
                   ELSE /\ orig[p].kind = "badger10"
                        /\ disk[p] = orig[p]
                        /\ ~BackedUp(p)
                        /\ LeftAsIs(m)

\* success with one path migrated and one that already held a 1.0 store
C8_Witness ==
    /\ Success
    /\ Len(paths) = 2
    /\ orig[paths[1]].kind = "badger08"
    /\ orig[paths[2]].kind = "badger10"
    /\ Migrated(1)
    /\ LeftAsIs(2)

\* C9: for each path the 1.0 adapter is tried first; the 0.8 adapter only
\* after the 1.0 open failed with the unsupported-version signature; any other
\* open failure is returned at once; when both fail with the signature the
\* path fails with ErrInvalidVersion and nothing on disk has changed for it.
C9_ProbeOrder ==
    /\ \A m \in 1..Len(hist) :
        (hist[m].op \notin {"checkRepoVersion", "loadSpecs", "return"}
            /\ hist[m - 1].idx # hist[m].idx) => hist[m].op = "try10"
    /\ \A m \in Events("try08") :
        /\ hist[m - 1].op = "try10"
        /\ hist[m - 1].idx = hist[m].idx
        /\ hist[m - 1].res = ErrInvalidVersion
    /\ \A m \in Events("try10") :
        hist[m].res = ErrInvalidVersion =>
            IF m = Len(hist) THEN pc = "try08" ELSE hist[m + 1].op = "try08"
    /\ \A m \in Events("try10") \cup Events("try08") :
        hist[m].res \notin {Nil, ErrInvalidVersion} =>
            m = Len(hist) /\ Done /\ err = hist[m].res
    /\ \A m \in Events("try08") :
        hist[m].res = ErrInvalidVersion =>
            m = Len(hist) /\ Done /\ err = ErrInvalidVersion /\ disk = before

\* both adapters rejected the second path, after the first was migrated
C9_Witness ==
    /\ FailedAt("try08")
    /\ err = ErrInvalidVersion
    /\ i = 2
    /\ hist[Len(hist) - 1].op = "try10"
    /\ disk # orig

-----------------------------------------------------------------------------
(* The badgerds leaves of a spec tree, by their positions in the tree *)

Children(node) ==
    CASE node.type.v = "mount" -> [m \in 1..Len(node.mounts.v) |-> node.mounts.v[m].v]
      [] node.type.v = "measure" -> <<node.child.v>>
      [] OTHER -> <<>>

\* the positions (sequences of child numbers) of the badgerds leaves
RECURSIVE LeafPositions(_)
LeafPositions(node) ==
    IF node.type.v = "badgerds" THEN {<<>>}
    ELSE UNION {{<<m>> \o q : q \in LeafPositions(Children(node)[m])} :
                    m \in 1..Len(Children(node))}

RECURSIVE NodeAt(_, _)
NodeAt(node, pos) ==
    IF pos = <<>> THEN node ELSE NodeAt(Children(node)[Head(pos)], Tail(pos))

\* position q comes before position r, depth first and left to right
Before(q, r) ==
    \E m \in 1..Len(q) :
        /\ m <= Len(r)
        /\ q[m] < r[m]
        /\ \A k \in 1..(m - 1) : q[k] = r[k]

IsFlattening(out, tree) ==
    LET S == LeafPositions(tree)
    IN  /\ Len(out) = Cardinality(S)
        /\ \A q \in S :
            out[Cardinality({r \in S : Before(r, q)}) + 1] = NodeAt(tree, q).path.v

\* C10: for a valid spec tree parseSpecs returns the paths of the badgerds
\* leaves in depth-first, left-to-right order, duplicates kept, and no path
\* when there is no badgerds leaf.
C10_SpecFlattening ==
    (Events("loadSpecs") # {} /\ specFile.readable /\ specFile.valid
        /\ specFile.spec \in ValidTrees) =>
        /\ Happened("loadSpecs", 0, Nil)
        /\ IsFlattening(paths, specFile.spec)
        /\ LeafPositions(specFile.spec) = {} => paths = <<>>

\* a mount of a measured store and a plain one, in that order
C10_Witness ==
    /\ Events("loadSpecs") # {}
    /\ specFile.spec = Mount(<<JObj(Measure(Badgerds("b"))), JObj(Badgerds("a"))>>)
    /\ paths = <<"b", "a">>

-----------------------------------------------------------------------------
(* Malformed spec trees *)

KnownTypes == {"mount", "measure", "badgerds", "flatfs", "levelds"}

\* the node itself violates the expected shape
BadNode(node) ==
    \/ ~Has(node, "type", "string")
    \/ node.type.v \notin KnownTypes
    \/ node.type.v = "mount" /\ ~Has(node, "mounts", "array")
    \/ node.type.v = "mount" /\ \E m \in 1..Len(node.mounts.v) : node.mounts.v[m].t # "object"
    \/ node.type.v = "measure" /\ ~Has(node, "child", "object")
    \/ node.type.v = "badgerds" /\ ~Has(node, "path", "string")

\* some node of the tree violates the expected shape
RECURSIVE HasBadNode(_)
HasBadNode(node) ==
    \/ BadNode(node)
    \/ \E m \in 1..Len(Children(node)) : HasBadNode(Children(node)[m])

ParseErrors ==
    {"unexpected spec type", "unexpected mounts type", "unexpected mount type",
     "unexpected child type", "unexpected path type", "unexpected ds type"}

\* C11: when some node of the spec tree is malformed, parseSpecs returns an
\* error and no path, also when badgerds leaves before it were valid, and
\* Upgrade fails without opening, copying or renaming any store.
C11_SpecRejecting ==
    (Events("loadSpecs") # {} /\ specFile.readable /\ specFile.valid
        /\ HasBadNode(specFile.spec)) =>
        /\ parseSpecs(specFile.spec).err \in ParseErrors
        /\ parseSpecs(specFile.spec).out = <<>>
        /\ Failure
        /\ err = parseSpecs(specFile.spec).err
        /\ paths = <<>>
        /\ \A m \in 1..Len(hist) : hist[m].op \in {"checkRepoVersion", "loadSpecs"}
        /\ prod = <<>>
        /\ disk = orig

\* a valid badgerds leaf followed by a node of unknown type
C11_Witness ==
    /\ Failure
    /\ specFile.spec = Mount(<<JObj(Badgerds("a")), JObj(Other("bogus"))>>)
    /\ err = "unexpected ds type"
    /\ paths = <<>>

-----------------------------------------------------------------------------
(* Store handles *)

\* the old-store handle of producer j is released: its goroutine ran the
\* deferred it.Close() and kv.Close()
KvClosed(j) == prod[j].pc = "exit"

\* no step is left to take: Upgrade returned and every goroutine ended, or
\* what is left is blocked
Quiescent == ~ENABLED Next

\* C12: on every way a path's migration can end, the handles it opened are
\* closed: when nothing can run any more, the destination store handle is closed
\* and every old-store handle is closed.
C12_HandleRelease ==
    Quiescent => (~dbOpen /\ \A j \in 1..Len(prod) : KvClosed(j))

-----------------------------------------------------------------------------
(* The states a path can be left in *)

\* (i) the original is at the path, and nowhere else
Untouched(p) == disk[p] = orig[p] /\ ~BackedUp(p)

\* (ii) the original is under a backup name and nothing is at the path
BackupOnly(p) == disk[p] = Absent /\ BackedUp(p)

\* (iii) the original is under a backup name and the path holds the store that
\* a migration of this path committed and swapped in
Replaced(p) ==
    /\ disk[p].kind = "badger10"
    /\ BackedUp(p)
    /\ \E m \in 1..Len(paths) :
        /\ paths[m] = p
        /\ Happened("Commit", m, Nil)
        /\ Happened("Rename1", m, Nil)
        /\ Happened("Rename2", m, Nil)

\* the paths loadSpecs resolved
ResolvedPaths == {paths[m] : m \in 1..Len(paths)}

PathStates(p) ==
    (IF Untouched(p) THEN {"untouched"} ELSE {})
        \cup (IF BackupOnly(p) THEN {"backup only"} ELSE {})
        \cup (IF Replaced(p) THEN {"replaced"} ELSE {})

\* C13: in every reachable state, and so whenever Upgrade returns a failure,
\* each resolved path is in exactly one of the states untouched, backup only,
\* replaced;
\* a store renamed onto a path was committed before, and while the temporary
\* store waits for the swap it holds exactly the committed transaction.
C13_FailureStates ==
    /\ \A p \in ResolvedPaths : Cardinality(PathStates(p)) = 1
    /\ \A m \in Events("Rename2") :
        hist[m].res = Nil => Happened("Commit", hist[m].idx, Nil)
    /\ pc \in {"backup", "rename1", "rename2"} =>
        /\ txnState = "committed"
        /\ disk[temp] = Dir("badger10", txn)

\* Upgrade failed on the second path when its first rename failed: the first
\* path is replaced, the second untouched
C13_Witness ==
    /\ FailedAt("Rename1")
    /\ paths = <<"a", "b">>
    /\ PathStates("a") = {"replaced"}
    /\ PathStates("b") = {"untouched"}
    /\ orig["b"].kind = "badger08"

\* Upgrade failed when the second rename failed: backup only
C13_WitnessBackupOnly ==
    /\ FailedAt("Rename2")
    /\ PathStates(paths[i]) = {"backup only"}

-----------------------------------------------------------------------------
\* producer j abandoned the iteration: its select took ctx.Done() while the
\* handoff was pending
Abandoned(j) == prod[j].exit = "cancelled"

\* C14: when the producer abandoned the iteration on the cancellation signal,
\* the failure Upgrade returns is ErrCancelled.
C14_CancelledOutcome ==
    \A j \in 1..Len(prod) : (Done /\ Abandoned(j)) => err = ErrCancelled

-----------------------------------------------------------------------------
\* C15: every pair the consumer applied with Set is a pair the old store of
\* the current migration holds, also when the old store's iterator reuses its
\* buffers on it.Next().
C15_KeyValueIsolation ==
    (Len(prod) > 0 /\ txnState \in {"active", "committed"}) =>
        \A k \in DOMAIN txn :
            /\ k \in DOMAIN prod[Cur].data
            /\ txn[k] = prod[Cur].data[k]

-----------------------------------------------------------------------------
\* the event at position m of hist follows an event of operation op with
\* result nil for the same path number
Preceded(m, op) ==
    \E n \in 1..(m - 1) :
        hist[n].op = op /\ hist[n].idx = hist[m].idx /\ hist[n].res = Nil

\* C16: the original is renamed to the backup name only after Commit returned
\* nil and the destination store was closed, and the backup name is absent at
\* that moment; the temporary store is renamed onto the path only after the
\* first rename succeeded; when the first rename fails, the untouched original
\* and the committed temporary store both exist.
C16_SwapOrder ==
    /\ pc = "rename1" =>
        /\ txnState = "committed"
        /\ ~dbOpen
        /\ disk[backup] = Absent
        /\ disk[paths[i]] = before[paths[i]]
        /\ disk[temp] = Dir("badger10", txn)
    /\ \A m \in Events("Rename1") : Preceded(m, "Commit")
    /\ \A m \in Events("Rename2") : Preceded(m, "Rename1")
    /\ pc = "rename2" =>
        /\ disk[paths[i]] = Absent
        /\ disk[backup] = before[paths[i]]
        /\ disk[temp] = Dir("badger10", txn)
    /\ FailedAt("Rename1") =>
        /\ disk[paths[i]] = before[paths[i]]
        /\ disk[paths[i]].kind = "badger08"
        /\ txnState = "committed"
        /\ disk[temp] = Dir("badger10", txn)
        /\ disk[backup] = Absent

\* the first rename failed after two records were committed
C16_Witness ==
    /\ FailedAt("Rename1")
    /\ paths = <<"a">>
    /\ nDone = 2
    /\ disk["a"] = orig["a"]
    /\ disk[temp].kind = "badger10"
    /\ backup \in BackupNames

-----------------------------------------------------------------------------
\* every old store opened so far is closed
AllKvClosed == \A j \in 1..Len(prod) : KvClosed(j)

\* no producer hands off a record in this step
NoHandoff ==
    /\ Len(prod') = Len(prod)
    /\ \A j \in 1..Len(prod) : prod'[j].sent = prod[j].sent

\* C17: once migrateData cancelled the context, no further record is handed
\* off, the transaction is not committed then or later, and the producer
\* eventually returns with the old store closed.
C17_CancellationLiveness ==
    /\ [](cancelled =>
            /\ txnState \in {"none", "discarded"}
            /\ ~dbOpen
            /\ i \in 1..Len(paths) /\ ~Happened("Commit", i, Nil))
    /\ [][cancelled => (cancelled' /\ NoHandoff /\ txnState' = txnState)]_vars
    /\ (cancelled ~> AllKvClosed)

\* Set failed on the first of two records; the producer read the second, took
\* ctx.Done() in its select and closed the old store
C17_Witness ==
    /\ cancelled
    /\ FailedAt("Set")
    /\ nDone = 0
    /\ prod[Cur].sent = <<1>>
    /\ prod[Cur].pos = 2
    /\ Abandoned(Cur)
    /\ KvClosed(Cur)
    /\ txnState = "discarded"

-----------------------------------------------------------------------------
\* the number of records producer p has read from the old store: item.Value
\* called its callback for every position before pos, and for pos once the
\* callback runs
ReadCount(p) ==
    IF p.pc \in {"select", "next"} \/ p.exit = "cancelled" THEN p.pos
    ELSE IF p.pos = 0 THEN 0
    ELSE p.pos - 1

\* the number of records the consumer has received from producer p
ReceivedCount(p) == Len(p.sent)

\* C18: the producer is at most one record ahead of the consumer, and the
\* consumer receives the records in the order the producer read them, each
\* exactly once.
C18_Backpressure ==
    /\ \A j \in 1..Len(prod) :
        /\ ReadCount(prod[j]) - ReceivedCount(prod[j]) \in {0, 1}
        /\ prod[j].sent = [m \in 1..ReceivedCount(prod[j]) |-> m]
        /\ prod[j].closed => ReceivedCount(prod[j]) = Len(prod[j].order)
    /\ pc \in {"recv", "set"} =>
        ReceivedCount(prod[Cur]) = nDone + (IF pc = "set" THEN 1 ELSE 0)

\* the producer read the second record and waits in its select while the
\* consumer applies the first
C18_Witness ==
    /\ pc = "set"
    /\ prod[Cur].pc = "select"
    /\ ReadCount(prod[Cur]) = 2
    /\ ReceivedCount(prod[Cur]) = 1
    /\ nDone = 0

-----------------------------------------------------------------------------
\* C19: the old store is closed by its producer before migrateData renames the
\* original directory to the backup name, and before Upgrade goes on to the
\* next path or returns.
C19_ClosedBeforeSwap ==
    /\ pc = "rename2" => KvClosed(Cur)
    /\ pc \in {"range", "done"} => AllKvClosed

-----------------------------------------------------------------------------
\* path number m holds a 1.0 store when its processing starts: it held one at
\* the start of the run, or an earlier occurrence of the path was migrated
AlreadyCurrent(m) ==
    \/ orig[paths[m]].kind = "badger10"
    \/ \E k \in 1..(m - 1) : paths[k] = paths[m] /\ Happened("Rename2", k, Nil)

\* C20: processing a path that already holds a 1.0 store is one open under
\* the 1.0 adapter, never followed by the 0.8 adapter, a temporary directory,
\* a backup or a rename; it succeeds when that open does, and it leaves the
\* disk, with the migrated store and the first backup, as it was.  A run on
\* paths that all hold a 1.0 store changes nothing.
C20_ReprocessNoOp ==
    /\ [](\A m \in 1..Len(paths) :
            AlreadyCurrent(m) =>
                /\ \A k \in 1..Len(hist) :
                    hist[k].idx = m =>
                        /\ hist[k].op = "try10"
                        /\ hist[k].res # ErrInvalidVersion
                /\ Cardinality({k \in 1..Len(hist) : hist[k].idx = m}) <= 1
                /\ Happened("try10", m, Nil) => i > m
                /\ i >= m => disk[paths[m]].kind = "badger10")
    /\ []((\A m \in 1..Len(paths) : orig[paths[m]].kind = "badger10") =>
            (disk = orig /\ prod = <<>> /\ temp = "" /\ backup = ""))
    /\ [][(pc = "try10" /\ AlreadyCurrent(i)) =>
            (disk' = disk /\ Len(prod') = Len(prod) /\ temp' = temp
                /\ backup' = backup /\ pc' \in {"try10", "range", "done"})]_vars

\* the path occurs twice: migrated at its first occurrence, only opened at
\* the second
C20_Witness ==
    /\ Success
    /\ paths = <<"a", "a">>
    /\ orig["a"].kind = "badger08"
    /\ Migrated(1)
    /\ LeftAsIs(2)
    /\ Happened("try10", 2, Nil)
    /\ disk["a"].kind = "badger10"
    /\ BackedUp("a")

\* Upgrade is run on the disk a successful run left
C20_WitnessRerun ==
    /\ Success
    /\ paths = <<"a">>
    /\ \E b \in FewDirsB : orig = AfterRun(b)
    /\ Happened("try10", 1, Nil)
    /\ disk = orig

====
